---- MODULE Spec2Model ----
(***************************************************************************)
(* A model of the containers of bene-volent/dsa: the fixed-capacity array  *)
(* (array/array.go), the two stack backings (stack package) and the linked *)
(* lists (linkedlist/linkedlist.go).  Every method is an operator from the *)
(* receiver and the arguments to the receiver afterwards and the returned  *)
(* values; the actions apply the methods to the state with inputs drawn    *)
(* from small sets.                                                        *)
(***************************************************************************)
EXTENDS Integers, Sequences, FiniteSets, TLC

VARIABLES
    array,      \* the array[T] struct under test: [arr, size]
    mergeA,     \* receiver of Merge
    mergeB,     \* argument of Merge
    mergeRes,   \* what Merge returned: [called, res, err]
    ret,        \* the last call and what it returned: [op, val, index, result, err]
    backing,    \* which implementation of the stack interface the client built
    stackArray, \* the stackArray[T] struct: [arr, top]
    stackList,  \* the stackList[T] struct: [topNode, top, capacity]
    stackNodes, \* the node[T] values allocated for the stackList: address -> [Next, Val]
    run,        \* history: the pushes and pops since the stack was last empty
    lastPushed, \* history: the value of the last successful Push
    retList,    \* what the list stack returned when both stacks get the same call
    sll,        \* the SinglyLinkedList[T] struct: [head, length]
    sllNodes,   \* the unidirectionalNode[T] values: address -> [Next, Val]
    net,        \* history: successful inserts minus successful deletes on sll
    dll,        \* the DoublyLinkedList[T] struct: [head, tail, length]
    dllNodes    \* the bidirectionalNode[T] values: address -> [Prev, Next, Val]

arrayVars == <<array>>

mergeVars == <<mergeA, mergeB, mergeRes>>

stackVars == <<backing, stackArray, stackList, stackNodes, run, lastPushed, retList>>

sllVars == <<sll, sllNodes, net>>

dllVars == <<dll, dllNodes>>

vars == <<arrayVars, mergeVars, stackVars, sllVars, dllVars, ret>>

----------------------------------------------------------------------------
(* Bounds.  The source fixes ArrayMaxSize at 100 (array.go:8); the model   *)
(* keeps the constant's role and scales its value.                         *)

ArrayMaxSize == 3

MaxElem == 1

Elems == 0 .. MaxElem

\* index arguments: one below and one or two above every valid index
Indices == (0 - 1) .. (ArrayMaxSize + 1)

----------------------------------------------------------------------------
(* Errors: the messages of the errors.New calls, and the run-time panic of *)
(* an index expression outside the fixed-size buffer.                      *)

NoErr == "nil"

ErrFull == "Array is full"

ErrEmpty == "Array is empty"

ErrOutOfBounds == "Index out of bounds"

ErrNotFound == "Element not found"

ErrCapacityExceeded == "Cannot fit both arrays completely"

Panic == "panic: index out of range"

----------------------------------------------------------------------------
(* array[T]                                                                *)

InBuffer(i) == i \in 0 .. (ArrayMaxSize - 1)

\* New: size 0 and the zero value in every slot
New == [arr |-> [i \in 0 .. (ArrayMaxSize - 1) |-> 0], size |-> 0]

\* the live elements of a, indices [0, size), as a sequence
Live(a) == [k \in 1 .. a.size |-> a.arr[k - 1]]

Outcome(a, result, err) == [self |-> a, result |-> result, err |-> err]

Size(a) == a.size

\* PushElement testing for the full array one element late
PushElementFullLate(a, element) ==
    IF a.size > ArrayMaxSize
    THEN Outcome(a, 0, ErrFull)
    ELSE Outcome([arr |-> [a.arr EXCEPT ![a.size] = element],
                  size |-> a.size + 1], 0, NoErr)

PushElement(a, element) ==
    IF a.size = ArrayMaxSize
    THEN Outcome(a, 0, ErrFull)
    ELSE Outcome([arr |-> [a.arr EXCEPT ![a.size] = element],
                  size |-> a.size + 1], 0, NoErr)

PopElement(a) ==
    IF a.size = 0
    THEN Outcome(a, 0, ErrEmpty)
    ELSE Outcome([a EXCEPT !.size = a.size - 1], a.arr[a.size - 1], NoErr)

\* the shift loop stopping one slot early (i > index)
RECURSIVE ShiftRightStopsEarly(_, _, _)
ShiftRightStopsEarly(buf, i, index) ==
    IF i > index
    THEN ShiftRightStopsEarly([buf EXCEPT ![i + 1] = buf[i]], i - 1, index)
    ELSE buf

\* for i := arr.size - 1; i >= index; i-- { arr.arr[i+1] = arr.arr[i] }
RECURSIVE ShiftRight(_, _, _)
ShiftRight(buf, i, index) ==
    IF i >= index
    THEN ShiftRight([buf EXCEPT ![i + 1] = buf[i]], i - 1, index)
    ELSE buf

\* InsertElement testing for the full array before the index
InsertElementFullFirst(a, element, index) ==
    IF a.size = ArrayMaxSize
    THEN Outcome(a, 0, ErrFull)
    ELSE IF index < 0 \/ index > a.size
    THEN Outcome(a, 0, ErrOutOfBounds)
    ELSE Outcome([arr |-> [ShiftRight(a.arr, a.size - 1, index) EXCEPT ![index] = element],
                  size |-> a.size + 1], 0, NoErr)

InsertElement(a, element, index) ==
    IF index < 0 \/ index > a.size
    THEN Outcome(a, 0, ErrOutOfBounds)
    ELSE IF a.size = ArrayMaxSize
    THEN Outcome(a, 0, ErrFull)
    ELSE Outcome([arr |-> [ShiftRight(a.arr, a.size - 1, index) EXCEPT ![index] = element],
                  size |-> a.size + 1], 0, NoErr)

\* the shift loop stopping one slot early (i < arr.size-2)
RECURSIVE ShiftLeftStopsEarly(_, _, _)
ShiftLeftStopsEarly(buf, i, size) ==
    IF i < size - 2
    THEN ShiftLeftStopsEarly([buf EXCEPT ![i] = buf[i + 1]], i + 1, size)
    ELSE buf

\* for i := index; i < arr.size-1; i++ { arr.arr[i] = arr.arr[i+1] }
RECURSIVE ShiftLeft(_, _, _)
ShiftLeft(buf, i, size) ==
    IF i < size - 1
    THEN ShiftLeft([buf EXCEPT ![i] = buf[i + 1]], i + 1, size)
    ELSE buf

RemoveAtIndex(a, index) ==
    IF index < 0 \/ index >= a.size
    THEN Outcome(a, 0, ErrOutOfBounds)
    ELSE IF a.size = 0
    THEN Outcome(a, 0, ErrEmpty)
    ELSE Outcome([arr |-> ShiftLeft(a.arr, index, a.size),
                  size |-> a.size - 1], 0, NoErr)

Get(a, index) ==
    IF index < 0 \/ index >= a.size
    THEN Outcome(a, 0, ErrOutOfBounds)
    ELSE Outcome(a, a.arr[index], NoErr)

Set(a, index, val) ==
    IF index < 0 \/ index >= a.size
    THEN Outcome(a, 0, ErrOutOfBounds)
    ELSE Outcome([a EXCEPT !.arr[index] = val], 0, NoErr)

\* The indices of arr.arr that each method reads or writes.
PushElementSlots(a) ==
    IF a.size = ArrayMaxSize THEN {} ELSE {a.size}

PopElementSlots(a) ==
    IF a.size = 0 THEN {} ELSE {a.size - 1}

\* arr.arr[i+1] = arr.arr[i] for i from arr.size-1 down to index
RECURSIVE ShiftRightSlots(_, _)
ShiftRightSlots(i, index) ==
    IF i >= index
    THEN {i + 1, i} \cup ShiftRightSlots(i - 1, index)
    ELSE {}

InsertElementSlots(a, index) ==
    IF index < 0 \/ index > a.size
    THEN {}
    ELSE IF a.size = ArrayMaxSize
    THEN {}
    ELSE ShiftRightSlots(a.size - 1, index) \cup {index}

\* arr.arr[i] = arr.arr[i+1] for i from index up to arr.size-2
RECURSIVE ShiftLeftSlots(_, _)
ShiftLeftSlots(i, size) ==
    IF i < size - 1
    THEN {i, i + 1} \cup ShiftLeftSlots(i + 1, size)
    ELSE {}

RemoveAtIndexSlots(a, index) ==
    IF index < 0 \/ index >= a.size
    THEN {}
    ELSE IF a.size = 0
    THEN {}
    ELSE ShiftLeftSlots(index, a.size)

SetSlots(a, index) ==
    IF index < 0 \/ index >= a.size THEN {} ELSE {index}

\* for i := 0; i < arr.size; i++ { if arr.arr[i] == element { return i, nil } }
RECURSIVE IndexOfFrom(_, _, _)
IndexOfFrom(a, element, i) ==
    IF i < a.size
    THEN IF a.arr[i] = element
         THEN Outcome(a, i, NoErr)
         ELSE IndexOfFrom(a, element, i + 1)
    ELSE Outcome(a, 0 - 1, ErrNotFound)

\* the scan running over the whole buffer instead of the first size slots
RECURSIVE IndexOfInBufferFrom(_, _, _)
IndexOfInBufferFrom(a, element, i) ==
    IF i < ArrayMaxSize
    THEN IF a.arr[i] = element
         THEN Outcome(a, i, NoErr)
         ELSE IndexOfInBufferFrom(a, element, i + 1)
    ELSE Outcome(a, 0 - 1, ErrNotFound)

IndexOfInBuffer(a, element) == IndexOfInBufferFrom(a, element, 0)

IndexOf(a, element) == IndexOfFrom(a, element, 0)

\* for i := 0; i < arr.size-1; i++ { fmt.Print(arr.arr[i], ", ") }
RECURSIVE PrintAllLoop(_, _)
PrintAllLoop(a, i) ==
    IF i < a.size - 1
    THEN <<a.arr[i]>> \o PrintAllLoop(a, i + 1)
    ELSE <<>>

\* printed: the elements written to the standard output, in order;
\* fmt.Println(arr.arr[arr.size-1], "]") indexes the buffer at size-1
PrintAll(a) ==
    IF InBuffer(a.size - 1)
    THEN [self |-> a, result |-> 0, err |-> NoErr,
          printed |-> Append(PrintAllLoop(a, 0), a.arr[a.size - 1])]
    ELSE [self |-> a, result |-> 0, err |-> Panic, printed |-> PrintAllLoop(a, 0)]

----------------------------------------------------------------------------
(* Merge.  res is the local result; a store outside the buffer panics and  *)
(* the call returns nothing.                                               *)

\* for i := 0; i < arr.size; i++ { res.arr[i] = arr.arr[i]; res.size++ }
RECURSIVE MergeCopySelf(_, _, _)
MergeCopySelf(res, a, i) ==
    IF i < a.size
    THEN MergeCopySelf([arr |-> [res.arr EXCEPT ![i] = a.arr[i]],
                        size |-> res.size + 1], a, i + 1)
    ELSE res

\* for i := 0; i < otherArr.size; i++ {
\*     res.arr[arr.size+i] = otherArr.arr[i]; res.size++
\*     if res.size == ArrayMaxSize { break } }
RECURSIVE MergeCopyOther(_, _, _, _)
MergeCopyOther(res, a, otherArr, i) ==
    IF i < otherArr.size
    THEN IF ~InBuffer(a.size + i)
         THEN [res |-> res, panicked |-> TRUE]
         ELSE LET next == [arr |-> [res.arr EXCEPT ![a.size + i] = otherArr.arr[i]],
                           size |-> res.size + 1]
              IN IF next.size = ArrayMaxSize
                 THEN [res |-> next, panicked |-> FALSE]
                 ELSE MergeCopyOther(next, a, otherArr, i + 1)
    ELSE [res |-> res, panicked |-> FALSE]

\* [returned, res, err]: returned is FALSE when the call panicked
Merge(a, otherArr) ==
    LET copied == MergeCopyOther(MergeCopySelf(New, a, 0), a, otherArr, 0)
    IN IF copied.panicked
       THEN [returned |-> FALSE, res |-> New, err |-> Panic]
       ELSE IF a.size + otherArr.size > ArrayMaxSize
       THEN [returned |-> TRUE, res |-> copied.res, err |-> ErrCapacityExceeded]
       ELSE [returned |-> TRUE, res |-> copied.res, err |-> NoErr]

----------------------------------------------------------------------------
(* The stack package.  The source fixes StackMaxSize at 100; the model     *)
(* scales it.  A client of NewList may pass any int as the capacity.       *)

StackMaxSize == 3

MaxNegCapacity == 2

\* the capacities a client passes to NewList
Capacities == (0 - MaxNegCapacity) .. StackMaxSize

\* the memory holds one node more than the largest capacity asks for
SpareNodes == 1

Addresses == 1 .. (StackMaxSize + SpareNodes)

Nil == 0

ErrOverflow == "Stack Overflow!!!"

ErrUnderflow == "Stack Underflow!!!"

NilPanic == "panic: nil pointer dereference"

\* the addresses a client reaches from n by following Next
RECURSIVE Reach(_, _, _)
Reach(nodes, n, seen) ==
    IF n = Nil \/ n \in seen \/ n \notin DOMAIN nodes
    THEN seen
    ELSE Reach(nodes, nodes[n].Next, seen \cup {n})

\* the garbage collector: only the nodes reachable from root stay allocated
Collect(nodes, root) == [x \in Reach(nodes, root, {}) |-> nodes[x]]

\* new(...): an address that holds no node
Fresh(nodes) == CHOOSE x \in Addresses \ DOMAIN nodes :
                    \A y \in Addresses \ DOMAIN nodes : x <= y

NewArray == [arr |-> [i \in 0 .. (StackMaxSize - 1) |-> 0], top |-> 0 - 1]

\* Pop reading the slot at the decremented top
ArrayPopReadsBelowTop(s) ==
    IF s.top = 0 - 1
    THEN Outcome(s, 0, ErrUnderflow)
    ELSE IF s.top = 0
    THEN Outcome([s EXCEPT !.top = s.top - 1], 0, NoErr)
    ELSE Outcome([s EXCEPT !.top = s.top - 1], s.arr[s.top - 1], NoErr)

ArrayPush(s, element) ==
    IF s.top = StackMaxSize - 1
    THEN Outcome(s, 0, ErrOverflow)
    ELSE Outcome([arr |-> [s.arr EXCEPT ![s.top + 1] = element],
                  top |-> s.top + 1], 0, NoErr)

\* stack.top--; return stack.arr[stack.top+1], nil
ArrayPop(s) ==
    IF s.top = 0 - 1
    THEN Outcome(s, 0, ErrUnderflow)
    ELSE LET popped == [s EXCEPT !.top = s.top - 1]
         IN Outcome(popped, popped.arr[popped.top + 1], NoErr)

\* for i := stack.top; i >= 0; i-- { fmt.Print(stack.arr[i], " ") }
RECURSIVE ArrayPrintLoop(_, _)
ArrayPrintLoop(s, i) ==
    IF i >= 0
    THEN <<s.arr[i]>> \o ArrayPrintLoop(s, i - 1)
    ELSE <<>>

\* stackArray.Print
ArrayPrint(s) ==
    [self |-> s, result |-> 0, err |-> NoErr, printed |-> ArrayPrintLoop(s, s.top)]

ArrayTop(s) == s.top

ArrayIsEmpty(s) == s.top = 0 - 1

\* NewList(): the default capacity
NewListDefault == [topNode |-> Nil, top |-> 0 - 1, capacity |-> StackMaxSize]

\* NewList(capacity)
NewList(capacity) == [topNode |-> Nil, top |-> 0 - 1, capacity |-> capacity]

ListOutcome(s, nodes, result, err) ==
    [self |-> s, nodes |-> nodes, result |-> result, err |-> err]

\* Push comparing top with capacity instead of capacity-1
ListPushOneTooMany(s, nodes, element) ==
    IF s.top = s.capacity
    THEN ListOutcome(s, nodes, 0, ErrOverflow)
    ELSE LET newTop == Fresh(nodes)
         IN ListOutcome([s EXCEPT !.topNode = newTop, !.top = s.top + 1],
                        (newTop :> [Next |-> s.topNode, Val |-> element]) @@ nodes,
                        0, NoErr)

\* Push leaving newTop.Next nil
ListPushDropsChain(s, nodes, element) ==
    IF s.top = s.capacity - 1
    THEN ListOutcome(s, nodes, 0, ErrOverflow)
    ELSE LET newTop == Fresh(nodes)
         IN ListOutcome([s EXCEPT !.topNode = newTop, !.top = s.top + 1],
                        (newTop :> [Next |-> Nil, Val |-> element]) @@ nodes,
                        0, NoErr)

ListPush(s, nodes, element) ==
    IF s.top = s.capacity - 1
    THEN ListOutcome(s, nodes, 0, ErrOverflow)
    ELSE LET newTop == Fresh(nodes)
         IN ListOutcome([s EXCEPT !.topNode = newTop, !.top = s.top + 1],
                        (newTop :> [Next |-> s.topNode, Val |-> element]) @@ nodes,
                        0, NoErr)

\* Pop without the stack.top--
ListPopKeepsTop(s, nodes) ==
    IF s.top = 0 - 1
    THEN ListOutcome(s, nodes, 0, ErrUnderflow)
    ELSE IF s.topNode = Nil
    THEN ListOutcome(s, nodes, 0, NilPanic)
    ELSE LET store == s.topNode
         IN ListOutcome([s EXCEPT !.topNode = nodes[store].Next],
                        nodes, nodes[store].Val, NoErr)

\* store := stack.topNode; stack.topNode = stack.topNode.Next; stack.top--
ListPop(s, nodes) ==
    IF s.top = 0 - 1
    THEN ListOutcome(s, nodes, 0, ErrUnderflow)
    ELSE IF s.topNode = Nil
    THEN ListOutcome(s, nodes, 0, NilPanic)
    ELSE LET store == s.topNode
         IN ListOutcome([s EXCEPT !.topNode = nodes[store].Next, !.top = s.top - 1],
                        nodes, nodes[store].Val, NoErr)

ListTop(s) == s.top

ListIsEmpty(s) == s.top = 0 - 1

\* the values of the chain from node n, the top first
RECURSIVE Chain(_, _, _)
Chain(nodes, n, fuel) ==
    IF n = Nil \/ fuel = 0
    THEN <<>>
    ELSE <<nodes[n].Val>> \o Chain(nodes, nodes[n].Next, fuel - 1)

----------------------------------------------------------------------------
(* SinglyLinkedList[T]                                                     *)

MaxSLLNodes == 3

SLLAddresses == 1 .. MaxSLLNodes

\* pos arguments: one below and one above every valid position
Positions == (0 - 1) .. (MaxSLLNodes + 1)

ErrInsertAtEndEmpty == "Cannot insert at end of empty list"

ErrInvalidInsert == "Invalid position for insertion"

ErrDeleteEmpty == "Cannot delete from an empty list!"

ErrInvalidDelete == "invalid position for deletion"

\* what a walk yields once it has followed Next of a nil pointer
Crashed == 0 - 1

NewSLL == [head |-> Nil, length |-> 0]

FreshSLL(nodes) == CHOOSE x \in SLLAddresses \ DOMAIN nodes :
                       \A y \in SLLAddresses \ DOMAIN nodes : x <= y

\* current = current.Next, steps times
RECURSIVE Advance(_, _, _)
Advance(nodes, current, steps) ==
    IF steps <= 0
    THEN current
    ELSE IF current = Nil
    THEN Crashed
    ELSE Advance(nodes, nodes[current].Next, steps - 1)

\* the walk to the last node left out: current stays at the head
LastNodeStaysAtHead(nodes, current) == current

\* for current.Next != nil { current = current.Next }
RECURSIVE LastNode(_, _)
LastNode(nodes, current) ==
    IF nodes[current].Next # Nil
    THEN LastNode(nodes, nodes[current].Next)
    ELSE current

SLLInsertAtBeginning(l, nodes, val) ==
    LET newNode == FreshSLL(nodes)
    IN ListOutcome([head |-> newNode, length |-> l.length + 1],
                   (newNode :> [Next |-> l.head, Val |-> val]) @@ nodes,
                   0, NoErr)

\* InsertAtEnd without the l.length++
SLLInsertAtEndKeepsLength(l, nodes, val) ==
    IF l.head = Nil
    THEN ListOutcome(l, nodes, 0, ErrInsertAtEndEmpty)
    ELSE LET newNode == FreshSLL(nodes)
             current == LastNode(nodes, l.head)
         IN ListOutcome(l,
                        (newNode :> [Next |-> Nil, Val |-> val])
                            @@ [nodes EXCEPT ![current].Next = newNode],
                        0, NoErr)

SLLInsertAtEnd(l, nodes, val) ==
    IF l.head = Nil
    THEN ListOutcome(l, nodes, 0, ErrInsertAtEndEmpty)
    ELSE LET newNode == FreshSLL(nodes)
             current == LastNode(nodes, l.head)
         IN ListOutcome([l EXCEPT !.length = l.length + 1],
                        (newNode :> [Next |-> Nil, Val |-> val])
                            @@ [nodes EXCEPT ![current].Next = newNode],
                        0, NoErr)

\* InsertAtPosition without the pos == l.length-1 case
SLLInsertAtPositionNoEndCase(l, nodes, val, pos) ==
    IF pos < 0 \/ pos > l.length
    THEN ListOutcome(l, nodes, 0, ErrInvalidInsert)
    ELSE IF pos = 0
    THEN SLLInsertAtBeginning(l, nodes, val)
    ELSE LET newNode == FreshSLL(nodes)
             current == Advance(nodes, l.head, pos - 1)
         IN IF current \in {Nil, Crashed}
            THEN ListOutcome(l, nodes, 0, NilPanic)
            ELSE ListOutcome([l EXCEPT !.length = l.length + 1],
                             (newNode :> [Next |-> nodes[current].Next, Val |-> val])
                                 @@ [nodes EXCEPT ![current].Next = newNode],
                             0, NoErr)

SLLInsertAtPosition(l, nodes, val, pos) ==
    IF pos < 0 \/ pos > l.length
    THEN ListOutcome(l, nodes, 0, ErrInvalidInsert)
    ELSE IF pos = 0
    THEN SLLInsertAtBeginning(l, nodes, val)
    ELSE IF pos = l.length - 1
    THEN SLLInsertAtEnd(l, nodes, val)
    ELSE LET newNode == FreshSLL(nodes)
             current == Advance(nodes, l.head, pos - 1)
         IN IF current \in {Nil, Crashed}
            THEN ListOutcome(l, nodes, 0, NilPanic)
            ELSE ListOutcome([l EXCEPT !.length = l.length + 1],
                             (newNode :> [Next |-> nodes[current].Next, Val |-> val])
                                 @@ [nodes EXCEPT ![current].Next = newNode],
                             0, NoErr)

SLLDeleteFromBeginning(l, nodes) ==
    IF l.length = 0
    THEN ListOutcome(l, nodes, 0, ErrDeleteEmpty)
    ELSE IF l.head = Nil
    THEN ListOutcome(l, nodes, 0, NilPanic)
    ELSE ListOutcome([head |-> nodes[l.head].Next, length |-> l.length - 1],
                     nodes, nodes[l.head].Val, NoErr)

\* for curr.Next != nil && currNext.Next != nil {
\*     curr = curr.Next; currNext = curr.Next }
RECURSIVE BeforeTail(_, _, _)
BeforeTail(nodes, curr, currNext) ==
    IF nodes[curr].Next # Nil /\ nodes[currNext].Next # Nil
    THEN BeforeTail(nodes, nodes[curr].Next, nodes[nodes[curr].Next].Next)
    ELSE [curr |-> curr, currNext |-> currNext]

SLLDeleteFromEnd(l, nodes) ==
    IF l.length = 0
    THEN ListOutcome(l, nodes, 0, ErrDeleteEmpty)
    ELSE IF l.length = 1
    THEN SLLDeleteFromBeginning(l, nodes)
    ELSE IF l.head = Nil
    THEN ListOutcome(l, nodes, 0, NilPanic)
    ELSE LET at == BeforeTail(nodes, l.head, nodes[l.head].Next)
             cut == [nodes EXCEPT ![at.curr].Next = Nil]
             shorter == [l EXCEPT !.length = l.length - 1]
         IN IF at.currNext = Nil
            THEN ListOutcome(shorter, cut, 0, NilPanic)
            ELSE ListOutcome(shorter, cut, nodes[at.currNext].Val, NoErr)

\* DeleteAtPosition walking one node too far (i < pos)
SLLDeleteAtPositionWalksTooFar(l, nodes, pos) ==
    IF pos < 0 \/ pos >= l.length
    THEN ListOutcome(l, nodes, 0, ErrInvalidDelete)
    ELSE IF pos = 0
    THEN SLLDeleteFromBeginning(l, nodes)
    ELSE IF pos = l.length - 1
    THEN SLLDeleteFromEnd(l, nodes)
    ELSE LET curr == Advance(nodes, l.head, pos)
         IN IF curr \in {Nil, Crashed}
            THEN ListOutcome(l, nodes, 0, NilPanic)
            ELSE IF nodes[curr].Next = Nil
            THEN ListOutcome(l, nodes, 0, NilPanic)
            ELSE ListOutcome([l EXCEPT !.length = l.length - 1],
                             [nodes EXCEPT ![curr].Next = nodes[nodes[curr].Next].Next],
                             nodes[nodes[curr].Next].Val, NoErr)

SLLDeleteAtPosition(l, nodes, pos) ==
    IF pos < 0 \/ pos >= l.length
    THEN ListOutcome(l, nodes, 0, ErrInvalidDelete)
    ELSE IF pos = 0
    THEN SLLDeleteFromBeginning(l, nodes)
    ELSE IF pos = l.length - 1
    THEN SLLDeleteFromEnd(l, nodes)
    ELSE LET curr == Advance(nodes, l.head, pos - 1)
         IN IF curr \in {Nil, Crashed}
            THEN ListOutcome(l, nodes, 0, NilPanic)
            ELSE IF nodes[curr].Next = Nil
            THEN ListOutcome(l, nodes, 0, NilPanic)
            ELSE ListOutcome([l EXCEPT !.length = l.length - 1],
                             [nodes EXCEPT ![curr].Next = nodes[nodes[curr].Next].Next],
                             nodes[nodes[curr].Next].Val, NoErr)

\* for curr != nil { if curr.Val == element { return true, curr }; curr = curr.Next }
RECURSIVE SearchFrom(_, _, _)
SearchFrom(nodes, curr, element) ==
    IF curr # Nil
    THEN IF nodes[curr].Val = element
         THEN [found |-> TRUE, node |-> curr]
         ELSE SearchFrom(nodes, nodes[curr].Next, element)
    ELSE [found |-> FALSE, node |-> Nil]

\* the scan starting at the node after the head
SLLSearchAfterHead(l, nodes, element) ==
    IF l.head = Nil
    THEN [found |-> FALSE, node |-> Nil]
    ELSE SearchFrom(nodes, nodes[l.head].Next, element)

SLLSearch(l, nodes, element) == SearchFrom(nodes, l.head, element)

----------------------------------------------------------------------------
(* DoublyLinkedList[T]: InsertAtBeginning is the one implemented method.   *)

MaxDLLNodes == 6

DLLAddresses == 1 .. MaxDLLNodes

NewDLL == [head |-> Nil, tail |-> Nil, length |-> 0]

FreshDLL(nodes) == CHOOSE x \in DLLAddresses \ DOMAIN nodes :
                       \A y \in DLLAddresses \ DOMAIN nodes : x <= y

\* InsertAtBeginning setting tail at every insertion
DLLInsertAtBeginningMovesTail(l, nodes, val) ==
    LET newNode == FreshDLL(nodes)
    IN ListOutcome([head |-> newNode,
                    tail |-> newNode,
                    length |-> l.length + 1],
                   (newNode :> [Prev |-> Nil, Next |-> l.head, Val |-> val]) @@ nodes,
                   0, NoErr)

DLLInsertAtBeginning(l, nodes, val) ==
    LET newNode == FreshDLL(nodes)
    IN ListOutcome([head |-> newNode,
                    tail |-> IF l.length = 0 THEN newNode ELSE l.tail,
                    length |-> l.length + 1],
                   (newNode :> [Prev |-> Nil, Next |-> l.head, Val |-> val]) @@ nodes,
                   0, NoErr)

----------------------------------------------------------------------------
(* The calls a client makes on one array.                                  *)

\* ret: the method called, its arguments, the value and the error returned,
\* the elements it wrote to the standard output and the buffer slots it
\* indexed
NoCall == [op |-> "none", val |-> 0, index |-> 0, result |-> 0, err |-> NoErr,
           printed |-> <<>>, slots |-> {}, found |-> FALSE]

Call(op, val, index, out) ==
    [op |-> op, val |-> val, index |-> index, result |-> out.result, err |-> out.err,
     printed |-> <<>>, slots |-> {}, found |-> FALSE]

\* a call that writes to the standard output
\* a call together with the buffer indices it touched
SlotCall(op, val, index, out, slots) ==
    [Call(op, val, index, out) EXCEPT !.slots = slots]

\* a call of Search: the flag and the node it returned
SearchCall(op, val, out) ==
    [Call(op, val, 0, [result |-> out.node, err |-> NoErr]) EXCEPT !.found = out.found]

PrintCall(op, out) ==
    [op |-> op, val |-> 0, index |-> 0, result |-> 0, err |-> out.err,
     printed |-> out.printed, slots |-> {}, found |-> FALSE]

\* a panic that is not recovered ends the program
ArrayRunning == ret.err # Panic

NoMerge == [called |-> FALSE, returned |-> FALSE, res |-> New, err |-> NoErr]

\* every array[T] value a client can build: push the slots, pop down to size
Arrays == [arr : [0 .. (ArrayMaxSize - 1) -> Elems], size : 0 .. ArrayMaxSize]

NoRun == [pushed |-> <<>>, popped |-> <<>>, clean |-> TRUE, popFailed |-> FALSE]

NoPush == [done |-> FALSE, val |-> 0]

\* the state of each structure that a specification leaves alone
ArrayIdle == array = New

MergeIdle == /\ mergeA = New
             /\ mergeB = New
             /\ mergeRes = NoMerge

StackIdle == /\ backing = "none"
             /\ stackArray = NewArray
             /\ stackList = NewListDefault
             /\ stackNodes = <<>>
             /\ run = NoRun
             /\ lastPushed = NoPush
             /\ retList = NoCall

SLLIdle == /\ sll = NewSLL
           /\ sllNodes = <<>>
           /\ net = 0

DLLIdle == /\ dll = NewDLL
           /\ dllNodes = <<>>

InitArray ==
    /\ array = New
    /\ ret = NoCall
    /\ MergeIdle
    /\ StackIdle
    /\ SLLIdle
    /\ DLLIdle

DoPushElement ==
    /\ ArrayRunning
    /\ \E element \in Elems :
        LET out == PushElement(array, element)
        IN /\ array' = out.self
           /\ ret' = SlotCall("PushElement", element, 0, out, PushElementSlots(array))
           /\ UNCHANGED <<mergeVars, stackVars, sllVars, dllVars>>

DoPopElement ==
    /\ ArrayRunning
    /\ LET out == PopElement(array)
       IN /\ array' = out.self
          /\ ret' = SlotCall("PopElement", 0, 0, out, PopElementSlots(array))
          /\ UNCHANGED <<mergeVars, stackVars, sllVars, dllVars>>

DoInsertElement ==
    /\ ArrayRunning
    /\ \E element \in Elems, index \in Indices :
        LET out == InsertElement(array, element, index)
        IN /\ array' = out.self
           /\ ret' = SlotCall("InsertElement", element, index, out,
                             InsertElementSlots(array, index))
           /\ UNCHANGED <<mergeVars, stackVars, sllVars, dllVars>>

DoRemoveAtIndex ==
    /\ ArrayRunning
    /\ \E index \in Indices :
        LET out == RemoveAtIndex(array, index)
        IN /\ array' = out.self
           /\ ret' = SlotCall("RemoveAtIndex", 0, index, out,
                             RemoveAtIndexSlots(array, index))
           /\ UNCHANGED <<mergeVars, stackVars, sllVars, dllVars>>

DoGet ==
    /\ ArrayRunning
    /\ \E index \in Indices :
        LET out == Get(array, index)
        IN /\ array' = out.self
           /\ ret' = Call("Get", 0, index, out)
           /\ UNCHANGED <<mergeVars, stackVars, sllVars, dllVars>>

DoSet ==
    /\ ArrayRunning
    /\ \E index \in Indices, val \in Elems :
        LET out == Set(array, index, val)
        IN /\ array' = out.self
           /\ ret' = SlotCall("Set", val, index, out, SetSlots(array, index))
           /\ UNCHANGED <<mergeVars, stackVars, sllVars, dllVars>>

DoIndexOf ==
    /\ ArrayRunning
    /\ \E element \in Elems :
        LET out == IndexOf(array, element)
        IN /\ array' = out.self
           /\ ret' = Call("IndexOf", element, 0, out)
           /\ UNCHANGED <<mergeVars, stackVars, sllVars, dllVars>>

DoPrintAll ==
    /\ ArrayRunning
    /\ LET out == PrintAll(array)
       IN /\ array' = out.self
          /\ ret' = PrintCall("PrintAll", out)
          /\ UNCHANGED <<mergeVars, stackVars, sllVars, dllVars>>

NextArray ==
    \/ DoPrintAll
    \/ DoPushElement
    \/ DoPopElement
    \/ DoInsertElement
    \/ DoRemoveAtIndex
    \/ DoGet
    \/ DoSet
    \/ DoIndexOf

SpecArray == InitArray /\ [][NextArray]_vars

----------------------------------------------------------------------------
(* Properties of the array operations (SpecArray).                         *)

\* the sequence s with v put at 0-based index pos
InsertedAt(s, pos, v) == SubSeq(s, 1, pos) \o <<v>> \o SubSeq(s, pos + 1, Len(s))

\* the sequence s without the element at 0-based index pos
RemovedAt(s, pos) == SubSeq(s, 1, pos) \o SubSeq(s, pos + 2, Len(s))

\* C6: an InsertElement(v, index) on an array with size < ArrayMaxSize and
\* 0 <= index <= size succeeds, size grows by exactly one, Get(index) then
\* returns v, the elements formerly at [0, index) stay, and the elements
\* formerly at [index, size) follow in the same order at [index+1, size+1).
C6_InsertPlacesAndShifts ==
    [][(/\ ret'.op = "InsertElement"
        /\ array.size < ArrayMaxSize
        /\ ret'.index \in 0 .. array.size)
       => (/\ ret'.err = NoErr
           /\ array'.size = array.size + 1
           /\ Get(array', ret'.index).err = NoErr
           /\ Get(array', ret'.index).result = ret'.val
           /\ \A k \in 0 .. (ret'.index - 1) : array'.arr[k] = array.arr[k]
           /\ \A k \in ret'.index .. (array.size - 1) : array'.arr[k + 1] = array.arr[k])]_vars

\* an insert in the middle: elements on both sides of the new one, with a
\* shifted element that differs from the inserted one
C6_Witness ==
    /\ ret.op = "InsertElement"
    /\ ret.err = NoErr
    /\ ret.index >= 1
    /\ ret.index + 1 < array.size
    /\ array.arr[ret.index + 1] # array.arr[ret.index]

\* C7: InsertElement with an index outside [0, size], and Get, Set and
\* RemoveAtIndex with an index outside [0, size), return the OutOfBounds
\* error and leave size and the live elements as they were, in every state
\* of the array, the full one included.
C7_OutOfBoundsLeavesArray ==
    [][(\/ /\ ret'.op = "InsertElement"
           /\ ret'.index \notin 0 .. array.size
        \/ /\ ret'.op \in {"Get", "Set", "RemoveAtIndex"}
           /\ ret'.index \notin 0 .. (array.size - 1))
       => (/\ ret'.err = ErrOutOfBounds
           /\ array'.size = array.size
           /\ Live(array') = Live(array))]_vars

\* an insert on a full array with an index beyond size
C7_Witness ==
    /\ ret.op = "InsertElement"
    /\ ret.index > array.size
    /\ array.size = ArrayMaxSize
    /\ ret.err = ErrOutOfBounds

\* C8: RemoveAtIndex on an array of size 0 fails with the Empty error,
\* whatever the index.
C8_RemoveOnEmptyIsEmptyError ==
    [][(ret'.op = "RemoveAtIndex" /\ array.size = 0) => ret'.err = ErrEmpty]_vars

\* C19: in every state reached by PushElement, PopElement, InsertElement,
\* RemoveAtIndex and Set calls with arbitrary arguments, 0 <= size <=
\* ArrayMaxSize, and every buffer slot one of these calls read or wrote has
\* its index in [0, ArrayMaxSize).
C19_SizeAndSlotsInBounds ==
    /\ array.size \in 0 .. ArrayMaxSize
    /\ (ret.op \in {"PushElement", "PopElement", "InsertElement",
                    "RemoveAtIndex", "Set"})
           => \A i \in ret.slots : InBuffer(i)

\* an insert at index 0 that fills the array: every slot is touched, the
\* last one included
C19_Witness ==
    /\ ret.op = "InsertElement"
    /\ ret.err = NoErr
    /\ ret.index = 0
    /\ array.size = ArrayMaxSize
    /\ ret.slots = 0 .. (ArrayMaxSize - 1)

\* C20: RemoveAtIndex(index) with 0 <= index < size succeeds, size decreases
\* by exactly one, and the live sequence afterwards is the old one without
\* the element at index: the elements before index stay and those after it
\* each move one slot left, in the same order.
C20_RemoveDropsOnlyIndex ==
    [][(/\ ret'.op = "RemoveAtIndex"
        /\ ret'.index \in 0 .. (array.size - 1))
       => (/\ ret'.err = NoErr
           /\ array'.size = array.size - 1
           /\ Live(array') = RemovedAt(Live(array), ret'.index)
           /\ \A k \in 0 .. (ret'.index - 1) : array'.arr[k] = array.arr[k]
           /\ \A k \in (ret'.index + 1) .. (array.size - 1) :
                  array'.arr[k - 1] = array.arr[k])]_vars

\* a removal in the middle: an element stays before index and a different
\* one has moved into it
C20_Witness ==
    /\ ret.op = "RemoveAtIndex"
    /\ ret.err = NoErr
    /\ ret.index >= 1
    /\ ret.index < array.size
    /\ array.arr[ret.index] # array.arr[ret.index - 1]

\* C16: in every state reached by pushes, pops, inserts, removes and sets,
\* IndexOf(v) returns the smallest index in [0, size) whose element is v and a
\* nil error, and the NotFound error when no live element is v; a value left
\* in a slot of [size, ArrayMaxSize) by PopElement or RemoveAtIndex is never
\* found.
C16_IndexOfFindsFirstLive ==
    (ret.op = "IndexOf") =>
        LET found == {i \in 0 .. (array.size - 1) : array.arr[i] = ret.val}
        IN IF found = {}
           THEN ret.err = ErrNotFound
           ELSE /\ ret.err = NoErr
                /\ ret.result \in found
                /\ \A i \in found : ret.result <= i

\* a search for a value that only a slot beyond size still holds
C16_Witness ==
    /\ ret.op = "IndexOf"
    /\ ret.err = ErrNotFound
    /\ array.size >= 1
    /\ \E i \in array.size .. (ArrayMaxSize - 1) : array.arr[i] = ret.val

\* C11: PrintAll of the array and Print of the array stack complete without
\* a failure in every reachable state of the container, the one that holds
\* no element included, and leave the container as it was.
C11_PrintingNeverFails ==
    [][(ret'.op \in {"PrintAll", "Print"})
       => (/\ ret'.err = NoErr
           /\ array' = array
           /\ stackArray' = stackArray)]_vars

----------------------------------------------------------------------------
(* mergedArr, err = a.Merge(&b) on two arrays a client has built.          *)

InitMerge ==
    /\ mergeA \in Arrays
    /\ mergeB \in Arrays
    /\ mergeRes = NoMerge
    /\ ret = NoCall
    /\ ArrayIdle
    /\ StackIdle
    /\ SLLIdle
    /\ DLLIdle

DoMerge ==
    /\ ~mergeRes.called
    /\ LET out == Merge(mergeA, mergeB)
       IN mergeRes' = [called |-> TRUE, returned |-> out.returned,
                       res |-> out.res, err |-> out.err]
    /\ UNCHANGED <<mergeA, mergeB, arrayVars, ret, stackVars, sllVars, dllVars>>

NextMerge == DoMerge

SpecMerge == InitMerge /\ [][NextMerge]_vars

----------------------------------------------------------------------------
(* Properties of Merge (SpecMerge).                                        *)

Min(x, y) == IF x <= y THEN x ELSE y

Max(x, y) == IF x >= y THEN x ELSE y

\* the first n elements of a sequence
Take(s, n) == SubSeq(s, 1, Min(n, Len(s)))

\* C1: with a.size + b.size > ArrayMaxSize, a.Merge(b) returns normally, the
\* result has size ArrayMaxSize and holds a's live elements followed by the
\* first ArrayMaxSize - a.size elements of b, and the error is the
\* CapacityExceeded one; with a.size + b.size <= ArrayMaxSize the error is nil.
C1_MergeTruncatesAndReports ==
    mergeRes.called =>
        /\ mergeRes.returned
        /\ (mergeA.size + mergeB.size > ArrayMaxSize) =>
               /\ mergeRes.res.size = ArrayMaxSize
               /\ Live(mergeRes.res) =
                      Live(mergeA) \o Take(Live(mergeB), ArrayMaxSize - mergeA.size)
               /\ mergeRes.err = ErrCapacityExceeded
        /\ (mergeA.size + mergeB.size <= ArrayMaxSize) => mergeRes.err = NoErr

\* C2: Merge leaves a and b as they were, and the size of its result is
\* min(a.size + b.size, ArrayMaxSize).
C2_MergeNonDestructive ==
    [][(~mergeRes.called /\ mergeRes'.called)
       => (/\ mergeA'.size = mergeA.size
           /\ Live(mergeA') = Live(mergeA)
           /\ mergeB'.size = mergeB.size
           /\ Live(mergeB') = Live(mergeB)
           /\ mergeRes'.returned
           /\ mergeRes'.res.size = Min(mergeA.size + mergeB.size, ArrayMaxSize))]_vars

----------------------------------------------------------------------------
(* A client of the stack interface: it builds one of the two               *)
(* implementations and calls Push and Pop on it.                           *)

\* the history of the run after a Push of element that succeeded on a stack
\* whose top was top
AfterPush(top, element) ==
    IF top = 0 - 1
    THEN [pushed |-> <<element>>, popped |-> <<>>, clean |-> TRUE, popFailed |-> FALSE]
    ELSE IF run.clean /\ run.popped = <<>>
    THEN [run EXCEPT !.pushed = Append(run.pushed, element)]
    ELSE [pushed |-> <<>>, popped |-> <<>>, clean |-> FALSE, popFailed |-> FALSE]

\* the history of the run after a Pop that returned out
AfterPop(out) ==
    IF ~run.clean
    THEN run
    ELSE IF out.err = NoErr
    THEN [run EXCEPT !.popped = Append(run.popped, out.result)]
    ELSE IF Len(run.popped) < Len(run.pushed)
    THEN [run EXCEPT !.popFailed = TRUE]
    ELSE run

InitStack ==
    /\ backing \in {"array", "list"}
    /\ stackArray = NewArray
    /\ \/ stackList = NewListDefault
       \/ /\ backing = "list"
          /\ \E capacity \in Capacities : stackList = NewList(capacity)
    /\ stackNodes = <<>>
    /\ run = NoRun
    /\ lastPushed = NoPush
    /\ retList = NoCall
    /\ ret = NoCall
    /\ ArrayIdle
    /\ MergeIdle
    /\ SLLIdle
    /\ DLLIdle

DoArrayPush ==
    /\ backing = "array"
    /\ \E element \in Elems :
        LET out == ArrayPush(stackArray, element)
        IN /\ stackArray' = out.self
           /\ ret' = Call("Push", element, 0, out)
           /\ run' = IF out.err = NoErr THEN AfterPush(stackArray.top, element) ELSE run
           /\ lastPushed' = IF out.err = NoErr
                            THEN [done |-> TRUE, val |-> element] ELSE lastPushed
    /\ UNCHANGED <<backing, retList, stackList, stackNodes, arrayVars, mergeVars, sllVars, dllVars>>

DoArrayPop ==
    /\ backing = "array"
    /\ LET out == ArrayPop(stackArray)
       IN /\ stackArray' = out.self
          /\ ret' = Call("Pop", 0, 0, out)
          /\ run' = AfterPop(out)
    /\ UNCHANGED <<backing, retList, stackList, stackNodes, lastPushed,
                   arrayVars, mergeVars, sllVars, dllVars>>

\* the memory of the model is bounded: Push is called while an address is free
DoListPush ==
    /\ backing = "list"
    /\ Addresses \ DOMAIN stackNodes # {}
    /\ \E element \in Elems :
        LET out == ListPush(stackList, stackNodes, element)
        IN /\ stackList' = out.self
           /\ stackNodes' = Collect(out.nodes, out.self.topNode)
           /\ ret' = Call("Push", element, 0, out)
           /\ run' = IF out.err = NoErr THEN AfterPush(stackList.top, element) ELSE run
           /\ lastPushed' = IF out.err = NoErr
                            THEN [done |-> TRUE, val |-> element] ELSE lastPushed
    /\ UNCHANGED <<backing, retList, stackArray, arrayVars, mergeVars, sllVars, dllVars>>

DoListPop ==
    /\ backing = "list"
    /\ LET out == ListPop(stackList, stackNodes)
       IN /\ stackList' = out.self
          /\ stackNodes' = Collect(out.nodes, out.self.topNode)
          /\ ret' = Call("Pop", 0, 0, out)
          /\ run' = AfterPop(out)
    /\ UNCHANGED <<backing, retList, stackArray, lastPushed,
                   arrayVars, mergeVars, sllVars, dllVars>>

DoArrayPrint ==
    /\ backing = "array"
    /\ LET out == ArrayPrint(stackArray)
       IN /\ stackArray' = out.self
          /\ ret' = PrintCall("Print", out)
    /\ UNCHANGED <<backing, retList, stackList, stackNodes, run, lastPushed,
                   arrayVars, mergeVars, sllVars, dllVars>>

NextStack ==
    \/ DoArrayPrint
    \/ DoArrayPush
    \/ DoArrayPop
    \/ DoListPush
    \/ DoListPop

SpecStack == InitStack /\ [][NextStack]_vars

\* the stack in use, whichever the implementation
Top == IF backing = "array" THEN ArrayTop(stackArray) ELSE ListTop(stackList)

IsEmpty == IF backing = "array" THEN ArrayIsEmpty(stackArray) ELSE ListIsEmpty(stackList)

Capacity == IF backing = "array" THEN StackMaxSize ELSE stackList.capacity

\* the elements a client can still pop, the top first: the buffer from top
\* down to 0, or the values of the node chain
Contents ==
    IF backing = "array"
    THEN [k \in 1 .. (stackArray.top + 1) |-> stackArray.arr[stackArray.top + 1 - k]]
    ELSE Chain(stackNodes, stackList.topNode, Cardinality(Addresses) + 1)

\* the sequence s back to front
Reverse(s) == [k \in 1 .. Len(s) |-> s[Len(s) + 1 - k]]

\* the last n elements of s
LastN(s, n) == SubSeq(s, Len(s) - n + 1, Len(s))

----------------------------------------------------------------------------
(* Properties of the two stacks (SpecStack).                               *)

\* C3: for both implementations, from the empty stack, after n successful
\* pushes with n not above the capacity, the pops that follow all succeed and
\* return the pushed values in reverse push order, and the n-th pop leaves the
\* stack empty.
C3_PopsReversePushes ==
    (run.clean /\ Len(run.pushed) <= Capacity) =>
        /\ ~run.popFailed
        /\ Len(run.popped) <= Len(run.pushed)
        /\ run.popped = Reverse(LastN(run.pushed, Len(run.popped)))
        /\ (Len(run.popped) = Len(run.pushed)) => (IsEmpty /\ Contents = <<>>)

\* a list stack filled to the capacity with values that differ and popped
\* back to empty
C3_Witness ==
    /\ backing = "list"
    /\ run.clean
    /\ Len(run.pushed) = StackMaxSize
    /\ Len(run.popped) = Len(run.pushed)
    /\ run.pushed[1] # run.pushed[2]
    /\ ret.op = "Pop"
    /\ ret.err = NoErr

\* C4: for the array stack, and for the list stack whatever capacity NewList
\* was given, every reachable state has -1 <= top < capacity, and IsEmpty()
\* is true exactly when top = -1.
C4_TopWithinCapacity ==
    (backing # "none") =>
        /\ 0 - 1 <= Top
        /\ Top < Capacity
        /\ IsEmpty <=> (Top = 0 - 1)

\* C5: for both implementations, Push on a stack that holds capacity elements
\* returns the Overflow error, Pop on the empty stack returns the Underflow
\* error and the zero value, both leave top and the stored elements as they
\* were, and the Pop that follows a failed Push returns the value of the last
\* successful Push.
C5_FailedCallsLeaveStack ==
    [][/\ (ret'.op = "Push" /\ Top + 1 = Capacity)
          => (/\ ret'.err = ErrOverflow
              /\ Top' = Top
              /\ Contents' = Contents)
       /\ (ret'.op = "Pop" /\ IsEmpty)
          => (/\ ret'.err = ErrUnderflow
              /\ ret'.result = 0
              /\ Top' = Top
              /\ Contents' = Contents)
       /\ (ret.op = "Push" /\ ret.err = ErrOverflow /\ ret'.op = "Pop" /\ lastPushed.done)
          => (/\ ret'.err = NoErr
              /\ ret'.result = lastPushed.val)]_vars

\* a Push refused by a full list stack that holds more than one element
C5_Witness ==
    /\ backing = "list"
    /\ ret.op = "Push"
    /\ ret.err = ErrOverflow
    /\ Top + 1 = Capacity
    /\ Top >= 1
    /\ lastPushed.done

----------------------------------------------------------------------------
(* A client that holds a stackArray and a stackList of the default         *)
(* capacity behind the stack interface and makes every call on both.       *)

InitPair ==
    /\ backing = "both"
    /\ stackArray = NewArray
    /\ stackList = NewListDefault
    /\ stackNodes = <<>>
    /\ run = NoRun
    /\ lastPushed = NoPush
    /\ retList = NoCall
    /\ ret = NoCall
    /\ ArrayIdle
    /\ MergeIdle
    /\ SLLIdle
    /\ DLLIdle

PairRunning == retList.err # NilPanic

DoBothPush ==
    /\ backing = "both"
    /\ PairRunning
    /\ Addresses \ DOMAIN stackNodes # {}
    /\ \E element \in Elems :
        LET outArray == ArrayPush(stackArray, element)
            outList == ListPush(stackList, stackNodes, element)
        IN /\ stackArray' = outArray.self
           /\ stackList' = outList.self
           /\ stackNodes' = Collect(outList.nodes, outList.self.topNode)
           /\ ret' = Call("Push", element, 0, outArray)
           /\ retList' = Call("Push", element, 0, outList)
    /\ UNCHANGED <<backing, run, lastPushed, arrayVars, mergeVars, sllVars, dllVars>>

DoBothPop ==
    /\ backing = "both"
    /\ PairRunning
    /\ LET outArray == ArrayPop(stackArray)
           outList == ListPop(stackList, stackNodes)
       IN /\ stackArray' = outArray.self
          /\ stackList' = outList.self
          /\ stackNodes' = Collect(outList.nodes, outList.self.topNode)
          /\ ret' = Call("Pop", 0, 0, outArray)
          /\ retList' = Call("Pop", 0, 0, outList)
    /\ UNCHANGED <<backing, run, lastPushed, arrayVars, mergeVars, sllVars, dllVars>>

DoBothTop ==
    /\ backing = "both"
    /\ PairRunning
    /\ ret' = Call("Top", 0, 0, Outcome(stackArray, ArrayTop(stackArray), NoErr))
    /\ retList' = Call("Top", 0, 0, Outcome(stackList, ListTop(stackList), NoErr))
    /\ UNCHANGED <<backing, stackArray, stackList, stackNodes, run, lastPushed,
                   arrayVars, mergeVars, sllVars, dllVars>>

DoBothIsEmpty ==
    /\ backing = "both"
    /\ PairRunning
    /\ ret' = Call("IsEmpty", 0, 0, Outcome(stackArray, ArrayIsEmpty(stackArray), NoErr))
    /\ retList' = Call("IsEmpty", 0, 0, Outcome(stackList, ListIsEmpty(stackList), NoErr))
    /\ UNCHANGED <<backing, stackArray, stackList, stackNodes, run, lastPushed,
                   arrayVars, mergeVars, sllVars, dllVars>>

NextPair ==
    \/ DoBothPush
    \/ DoBothPop
    \/ DoBothTop
    \/ DoBothIsEmpty

SpecPair == InitPair /\ [][NextPair]_vars

\* C15: an array stack and a list stack of the default capacity that get the
\* same Push(v) and Pop() calls return the same error or no error and the
\* same popped value at every step, and agree on the top index and on
\* IsEmpty() after every step.
C15_StacksAgree ==
    (backing = "both") =>
        /\ ret.op = retList.op
        /\ ret.err = retList.err
        /\ ret.result = retList.result
        /\ ArrayTop(stackArray) = ListTop(stackList)
        /\ ArrayIsEmpty(stackArray) <=> ListIsEmpty(stackList)

\* both stacks popped the same value that is not the zero value and still
\* hold elements
C15_Witness ==
    /\ backing = "both"
    /\ ret.op = "Pop"
    /\ ret.err = NoErr
    /\ ret.result # 0
    /\ retList.result = ret.result
    /\ ListTop(stackList) >= 1
    /\ ArrayTop(stackArray) = ListTop(stackList)

\* C23: in every state a list stack reaches by Push and Pop calls, the number
\* of nodes reachable from topNode by following Next is top + 1, so topNode
\* is nil exactly when top is -1, and Pop never dereferences a nil topNode.
C23_ChainLengthIsTopPlusOne ==
    (backing = "list") =>
        /\ Cardinality(Reach(stackNodes, stackList.topNode, {})) = stackList.top + 1
        /\ Len(Chain(stackNodes, stackList.topNode, StackMaxSize + SpareNodes + 1))
               = stackList.top + 1
        /\ (stackList.topNode = Nil) <=> (stackList.top = 0 - 1)
        /\ ret.err # NilPanic

\* a pop that leaves a chain of two nodes under topNode
C23_Witness ==
    /\ backing = "list"
    /\ ret.op = "Pop"
    /\ ret.err = NoErr
    /\ stackList.top = 1
    /\ stackList.topNode # Nil
    /\ stackNodes[stackList.topNode].Next # Nil

----------------------------------------------------------------------------
(* A client of one SinglyLinkedList.  A nil dereference ends the program.  *)
(* The memory of the model is bounded: the inserts are called while an     *)
(* address is free.                                                        *)

InitSLL ==
    /\ sll = NewSLL
    /\ sllNodes = <<>>
    /\ net = 0
    /\ ret = NoCall
    /\ ArrayIdle
    /\ MergeIdle
    /\ StackIdle
    /\ DLLIdle

SLLRunning == ret.err # NilPanic

SLLHasMemory == SLLAddresses \ DOMAIN sllNodes # {}

\* the list, the nodes and the history after an insert that returned out
SLLInserted(op, val, pos, out) ==
    /\ sll' = out.self
    /\ sllNodes' = Collect(out.nodes, out.self.head)
    /\ net' = IF out.err = NoErr THEN net + 1 ELSE net
    /\ ret' = Call(op, val, pos, out)
    /\ UNCHANGED <<arrayVars, mergeVars, stackVars, dllVars>>

\* the list, the nodes and the history after a delete that returned out
SLLDeleted(op, pos, out) ==
    /\ sll' = out.self
    /\ sllNodes' = Collect(out.nodes, out.self.head)
    /\ net' = IF out.err = NoErr THEN net - 1 ELSE net
    /\ ret' = Call(op, 0, pos, out)
    /\ UNCHANGED <<arrayVars, mergeVars, stackVars, dllVars>>

DoSLLInsertAtBeginning ==
    /\ SLLRunning
    /\ SLLHasMemory
    /\ \E val \in Elems :
        SLLInserted("InsertAtBeginning", val, 0, SLLInsertAtBeginning(sll, sllNodes, val))

DoSLLInsertAtEnd ==
    /\ SLLRunning
    /\ SLLHasMemory
    /\ \E val \in Elems :
        SLLInserted("InsertAtEnd", val, 0, SLLInsertAtEnd(sll, sllNodes, val))

DoSLLInsertAtPosition ==
    /\ SLLRunning
    /\ SLLHasMemory
    /\ \E val \in Elems, pos \in Positions :
        SLLInserted("InsertAtPosition", val, pos,
                    SLLInsertAtPosition(sll, sllNodes, val, pos))

DoSLLDeleteFromBeginning ==
    /\ SLLRunning
    /\ SLLDeleted("DeleteFromBeginning", 0, SLLDeleteFromBeginning(sll, sllNodes))

DoSLLDeleteFromEnd ==
    /\ SLLRunning
    /\ SLLDeleted("DeleteFromEnd", 0, SLLDeleteFromEnd(sll, sllNodes))

DoSLLDeleteAtPosition ==
    /\ SLLRunning
    /\ \E pos \in Positions :
        SLLDeleted("DeleteAtPosition", pos, SLLDeleteAtPosition(sll, sllNodes, pos))

DoSLLSearch ==
    /\ SLLRunning
    /\ \E element \in Elems :
        ret' = SearchCall("Search", element, SLLSearch(sll, sllNodes, element))
    /\ UNCHANGED <<sll, sllNodes, net, arrayVars, mergeVars, stackVars, dllVars>>

NextSLL ==
    \/ DoSLLSearch
    \/ DoSLLInsertAtBeginning
    \/ DoSLLInsertAtEnd
    \/ DoSLLInsertAtPosition
    \/ DoSLLDeleteFromBeginning
    \/ DoSLLDeleteFromEnd
    \/ DoSLLDeleteAtPosition

SpecSLL == InitSLL /\ [][NextSLL]_vars

\* C9: after any sequence of the six insert and delete calls, failed ones
\* included, length is the number of successful inserts minus the number of
\* successful deletes, it is the number of nodes reachable from head by
\* following Next, and it is 0 exactly when head is nil.
C9_LengthCountsNodes ==
    /\ sll.length = net
    /\ sll.length = Cardinality(Reach(sllNodes, sll.head, {}))
    /\ (sll.length = 0) <=> (sll.head = Nil)

\* a delete in the middle of a list of three, after which two nodes remain
C9_Witness ==
    /\ ret.op = "DeleteAtPosition"
    /\ ret.index = 1
    /\ ret.err = NoErr
    /\ sll.length = 2
    /\ net = 2

\* the addresses of the nodes from n on, following Next
RECURSIVE PathFrom(_, _, _)
PathFrom(nodes, n, fuel) ==
    IF n = Nil \/ fuel = 0
    THEN <<>>
    ELSE <<n>> \o PathFrom(nodes, nodes[n].Next, fuel - 1)

\* the nodes of the list, the head first
Path == PathFrom(sllNodes, sll.head, MaxSLLNodes + 1)

\* the values of the list, the head first (index i of the list is Values[i+1])
Values == Chain(sllNodes, sll.head, MaxSLLNodes + 1)

\* the 0-based indices of the list whose node holds v
Occurrences(v) == {i \in 0 .. (Len(Values) - 1) : Values[i + 1] = v}

\* C22: on every list reached by inserts and deletes, Search(v) returns true
\* and the first node from head whose value is v when v occurs in the list,
\* false and nil when it does not (a value deleted earlier included), and
\* leaves head, length and every link as they were.
C22_SearchFindsFirst ==
    [][(ret'.op = "Search")
       => (/\ sll' = sll
           /\ sllNodes' = sllNodes
           /\ IF Occurrences(ret'.val) = {}
              THEN ret'.found = FALSE /\ ret'.result = Nil
              ELSE /\ ret'.found = TRUE
                   /\ \E i \in Occurrences(ret'.val) :
                          /\ \A j \in Occurrences(ret'.val) : i <= j
                          /\ ret'.result = Path[i + 1])]_vars

\* a search that passes the head and returns the first of two nodes holding
\* the value
C22_Witness ==
    /\ ret.op = "Search"
    /\ ret.found = TRUE
    /\ sll.length = 3
    /\ ret.result = Path[2]
    /\ Values[3] = ret.val

\* C12: for every pos with 0 <= pos <= length, InsertAtPosition(v, pos)
\* succeeds and puts the new node at index pos: the elements formerly at
\* [0, pos) keep their indices, those formerly at [pos, length) follow in the
\* same order, and length grows by one.
C12_InsertAtPositionPlacesAtPos ==
    [][(ret'.op = "InsertAtPosition" /\ ret'.index \in 0 .. sll.length)
       => (/\ ret'.err = NoErr
           /\ Values' = InsertedAt(Values, ret'.index, ret'.val)
           /\ sll'.length = sll.length + 1)]_vars

\* C13: InsertAtEnd(v) on a list without a head returns the EmptyList error
\* and leaves head nil and length 0; on any other list it succeeds, v is the
\* value of the last node, the nodes before keep their order, and length
\* grows by one.
C13_InsertAtEndAppendsOrRefuses ==
    [][(ret'.op = "InsertAtEnd")
       => IF sll.head = Nil
          THEN /\ ret'.err = ErrInsertAtEndEmpty
               /\ sll'.head = Nil
               /\ sll'.length = 0
          ELSE /\ ret'.err = NoErr
               /\ Values' = Append(Values, ret'.val)
               /\ SubSeq(Path', 1, Len(Path)) = Path
               /\ sll'.length = sll.length + 1]_vars

\* an append to a list of two or more whose head holds another value
C13_Witness ==
    /\ ret.op = "InsertAtEnd"
    /\ ret.err = NoErr
    /\ sll.length >= 3
    /\ Values[Len(Values)] = ret.val
    /\ Values[1] # ret.val

\* C14: for 0 <= pos < length, the ends included, DeleteAtPosition(pos)
\* returns the value that was at index pos and a nil error, the values left
\* are the old ones without that element, and length shrinks by one; for
\* pos < 0 or pos >= length it returns the OutOfBounds error and the list is
\* as it was.
C14_DeleteAtPositionRemovesPos ==
    [][(ret'.op = "DeleteAtPosition")
       => IF ret'.index \in 0 .. (sll.length - 1)
          THEN /\ ret'.err = NoErr
               /\ ret'.result = Values[ret'.index + 1]
               /\ Values' = RemovedAt(Values, ret'.index)
               /\ sll'.length = sll.length - 1
          ELSE /\ ret'.err = ErrInvalidDelete
               /\ sll' = sll
               /\ Path' = Path
               /\ Values' = Values]_vars

\* a delete in the middle that returned a value neither neighbour holds
C14_Witness ==
    /\ ret.op = "DeleteAtPosition"
    /\ ret.err = NoErr
    /\ ret.index >= 1
    /\ ret.index < sll.length
    /\ ret.result # Values[ret.index]
    /\ ret.result # Values[ret.index + 1]

----------------------------------------------------------------------------
(* A client of one DoublyLinkedList, which inserts at the beginning while  *)
(* an address is free.                                                     *)

InitDLL ==
    /\ dll = NewDLL
    /\ dllNodes = <<>>
    /\ ret = NoCall
    /\ ArrayIdle
    /\ MergeIdle
    /\ StackIdle
    /\ SLLIdle

DoDLLInsertAtBeginning ==
    /\ DLLAddresses \ DOMAIN dllNodes # {}
    /\ \E val \in Elems :
        LET out == DLLInsertAtBeginning(dll, dllNodes, val)
        IN /\ dll' = out.self
           /\ dllNodes' = out.nodes
           /\ ret' = Call("InsertAtBeginning", val, 0, out)
    /\ UNCHANGED <<arrayVars, mergeVars, stackVars, sllVars>>

NextDLL == DoDLLInsertAtBeginning

SpecDLL == InitDLL /\ [][NextDLL]_vars

\* C10: after any sequence of InsertAtBeginning calls, every pair of nodes
\* (a, b) with a.Next == b has b.Prev == a, head.Prev is nil and tail.Next
\* is nil.
C10_PrevMirrorsNext ==
    /\ \A a \in DOMAIN dllNodes :
           (dllNodes[a].Next # Nil) => (dllNodes[dllNodes[a].Next].Prev = a)
    /\ (dll.head # Nil) => (dllNodes[dll.head].Prev = Nil)
    /\ (dll.tail # Nil) => (dllNodes[dll.tail].Next = Nil)

\* the nodes of the doubly linked list, the head first
DLLPath == PathFrom(dllNodes, dll.head, MaxDLLNodes + 1)

\* C21: after any sequence of InsertAtBeginning calls, length is the number
\* of nodes reachable from head by following Next; length = 0 implies that
\* head and tail are nil; length = 1 implies head = tail; and when length >= 1
\* tail is the last node reachable from head, the node that the first
\* insertion created (the first address allocated).
C21_LengthHeadTail ==
    /\ dll.length = Cardinality(Reach(dllNodes, dll.head, {}))
    /\ dll.length = Len(DLLPath)
    /\ (dll.length = 0) => (dll.head = Nil /\ dll.tail = Nil)
    /\ (dll.length = 1) => (dll.head = dll.tail)
    /\ (dll.length >= 1) =>
           /\ dll.tail = DLLPath[Len(DLLPath)]
           /\ dll.tail = FreshDLL(<<>>)

\* a list of several nodes, where head and tail differ
C21_Witness ==
    /\ ret.op = "InsertAtBeginning"
    /\ dll.length >= 3
    /\ dll.head # dll.tail
    /\ Len(DLLPath) = dll.length


----------------------------------------------------------------------------
(* Package random: RandInt over math/rand, whose Intn(n) may return any    *)
(* integer of [0, n).                                                      *)

MaxRand == 3

RandArgs == (0 - MaxRand) .. MaxRand

\* the values rand.Intn(n) can return, for n > 0
Intn(n) == 0 .. (n - 1)

\* the values RandInt(a, b) can return
RandInt(a, b) ==
    LET lo == IF a > b THEN b ELSE a
        hi == IF a > b THEN a ELSE b
    IN IF lo = hi
       THEN {lo}
       ELSE {k + lo : k \in Intn(hi - lo + 1)}

InitRandom ==
    /\ ret = NoCall
    /\ ArrayIdle
    /\ MergeIdle
    /\ StackIdle
    /\ SLLIdle
    /\ DLLIdle

DoRandInt ==
    /\ \E a \in RandArgs, b \in RandArgs :
        \E r \in RandInt(a, b) :
            ret' = Call("RandInt", a, b, [result |-> r, err |-> NoErr])
    /\ UNCHANGED <<arrayVars, mergeVars, stackVars, sllVars, dllVars>>

NextRandom == DoRandInt

SpecRandom == InitRandom /\ [][NextRandom]_vars

\* C17: for a # b, RandInt(a, b) returns r with min(a, b) <= r < max(a, b),
\* whatever the random source yields; for a = b it returns a.
C17_RandIntHalfOpen ==
    (ret.op = "RandInt") =>
        IF ret.val = ret.index
        THEN ret.result = ret.val
        ELSE /\ Min(ret.val, ret.index) <= ret.result
             /\ ret.result < Max(ret.val, ret.index)


====
